---------------------------- MODULE Spec2Model ----------------------------
(***************************************************************************)
(* A model of the pnguin PNG chunk parser (package png): the signature     *)
(* check IsPNG, the chunk loop of Parse, the classification getChunkType   *)
(* and the filtering re-encoder StripTags with its pipe and goroutine.     *)
(* Bytes are the integers 0..255; a byte source is a finite sequence of    *)
(* bytes that ends with end-of-file.                                       *)
(***************************************************************************)
EXTENDS Integers, Sequences, FiniteSets, TLC

(***************************************************************************)
(* Bounds of the input family.                                             *)
(***************************************************************************)
MaxChunks == 2      \* chunks (complete or cut short) in a generated source
MaxData == 2        \* size of the largest generated data field

(***************************************************************************)
(* Package-level tables.                                                   *)
(***************************************************************************)
pngHeader == <<137, 80, 78, 71, 13, 10, 26, 10>>

ctHdr == <<73, 72, 68, 82>>
ctPlte == <<80, 76, 84, 69>>
ctDat == <<73, 68, 65, 84>>
ctEnd == <<73, 69, 78, 68>>
ctBkgd == <<98, 75, 71, 68>>
ctChrm == <<99, 72, 82, 77>>
ctDSig == <<100, 83, 73, 71>>
ctExif == <<101, 88, 73, 102>>
ctGama == <<103, 65, 77, 65>>
ctHist == <<104, 73, 83, 84>>
ctIccp == <<105, 67, 67, 80>>
ctItxt == <<105, 84, 88, 116>>
ctPhys == <<112, 72, 89, 115>>
ctSbit == <<115, 66, 73, 84>>
ctSplt == <<115, 80, 76, 84>>
ctSrgb == <<115, 82, 71, 66>>
ctSter == <<115, 84, 69, 82>>
ctText == <<116, 69, 88, 116>>
ctTime == <<116, 73, 77, 69>>
ctTrns == <<116, 82, 78, 83>>
ctZtxt == <<122, 84, 88, 116>>

ChunkTypeUnknown == 0
ChunkTypeHeader == 1
ChunkTypePalette == 2
ChunkTypeData == 3
ChunkTypeEnd == 4
ChunkTypeBkgdColor == 5
ChunkTypeChromaticity == 6
ChunkTypeDigiSignal == 7
ChunkTypeExif == 8
ChunkTypeGamma == 9
ChunkTypeHistogram == 10
ChunkTypeICC == 11
ChunkTypeTxtUTF8 == 12
ChunkTypePxSize == 13
ChunkTypeSigBits == 14
ChunkTypeSugPalette == 15
ChunkTypeRGB == 16
ChunkTypeStereo == 17
ChunkTypeTxtISO8859 == 18
ChunkTypeTimeChanged == 19
ChunkTypeTransparency == 20
ChunkTypeTxtCompressed == 21

(***************************************************************************)
(* State.                                                                  *)
(***************************************************************************)
VARIABLES
    src,        \* the bytes of the source handed to New, first to last
    orig,       \* the complete chunks src was built from (NoOrig: not known)
    pos,        \* read position of p.br: bytes of src consumed so far
    data,       \* p.data, the stored document
    lastCall,   \* the caller's latest call on the parser
    isPNG,      \* what the latest IsPNG call returned: <<bool, err>>
    pcParse,    \* "idle", or "loop" while Parse is inside the chunk loop
    chunks,     \* the local slice of Parser.chunks
    startPos,   \* read position at which the latest Parse call started
    parseErr,   \* what the latest Parse call returned ("none": none returned)
    pcStrip,    \* position of the StripTags goroutine
    walkData,   \* the slice WalkChunks ranges over in the goroutine
    wi,         \* index in walkData of the chunk handed to the callback
    wfield,     \* the field the callback writes next
    wbuf,       \* bytes of the pending w.Write not yet taken by a Read
    woffer,     \* TRUE while the goroutine is blocked in w.Write
    out,        \* the bytes the consumer has read from the pipe
    rdEOF,      \* TRUE once a Read returned io.EOF
    prevOut,    \* the stripped stream of the previous parser (NoOut: none)
    code,       \* a 4-byte type code handed to getChunkType
    cls,        \* the classification getChunkType returned for code
    hdrs,       \* what parseHeader returned in the latest PrintHeader call
    stdout,     \* the numbers the latest PrintHeader call printed
    pcWalk,     \* "idle", or "walk" while the caller is inside WalkChunks
    walked,     \* the chunks the caller's callback was handed in this walk
    walkCont,   \* what the caller's callback returned last
    rdClosed,   \* TRUE once the consumer closed the read end of the pipe
    rdErr,      \* the error the latest Read returned
    wErr,       \* err of the goroutine: what it closes the pipe with
    firstOut,   \* what an earlier StripTags stream delivered (NoOut: none)
    stripDoc    \* p.data as it was when StripTags was called last

vars == <<src, orig, pos, data, lastCall, isPNG, pcParse, chunks, startPos,
          parseErr, pcStrip, walkData, wi, wfield, wbuf, woffer, out, rdEOF,
          prevOut, code, cls, hdrs, stdout, pcWalk, walked, walkCont,
          rdClosed, rdErr, wErr, firstOut, stripDoc>>

parseVars == <<pcParse, chunks, startPos, parseErr>>
stripVars == <<pcStrip, walkData, wi, wfield, wbuf, woffer, out, rdEOF>>
classVars == <<code, cls>>
hdrVars == <<hdrs, stdout>>
walkVars == <<pcWalk, walked, walkCont>>
pipeVars == <<rdClosed, rdErr, wErr, firstOut>>

\* markers: a chunk no file holds, a byte no stream holds
NoOrig == <<[code |-> <<>>, data |-> <<>>, crc |-> <<>>]>>
NoOut == <<0 - 1>>
NoClass == 0 - 1

(***************************************************************************)
(* Helpers on byte sequences.                                              *)
(***************************************************************************)
Min(a, b) == IF a < b THEN a ELSE b

Prefix(s, n) == SubSeq(s, 1, Min(n, Len(s)))

\* Uint32 reading the bytes in little-endian order
Uint32_LittleEndian(b) == b[4] * 16777216 + b[3] * 65536 + b[2] * 256 + b[1]

\* binary.BigEndian.Uint32
Uint32(b) == b[1] * 16777216 + b[2] * 65536 + b[3] * 256 + b[4]

\* binary.BigEndian.PutUint32, used to build the inputs
PutUint32(n) == <<(n \div 16777216) % 256, (n \div 65536) % 256,
                  (n \div 256) % 256, n % 256>>

\* ASCII case folding of one byte
ToLower(b) == IF b >= 65 /\ b <= 90 THEN b + 32 ELSE b
ToUpper(b) == IF b >= 97 /\ b <= 122 THEN b - 32 ELSE b

\* getChunkType comparing without regard to case
getChunkType_FoldCase(ct) ==
    LET lo(c) == [i \in 1..Len(c) |-> ToLower(c[i])] IN
    IF lo(ct) = lo(ctHdr) THEN ChunkTypeHeader
    ELSE IF lo(ct) = lo(ctPlte) THEN ChunkTypePalette
    ELSE IF lo(ct) = lo(ctDat) THEN ChunkTypeData
    ELSE IF lo(ct) = lo(ctEnd) THEN ChunkTypeEnd
    ELSE IF lo(ct) = lo(ctBkgd) THEN ChunkTypeBkgdColor
    ELSE IF lo(ct) = lo(ctChrm) THEN ChunkTypeChromaticity
    ELSE IF lo(ct) = lo(ctDSig) THEN ChunkTypeDigiSignal
    ELSE IF lo(ct) = lo(ctExif) THEN ChunkTypeExif
    ELSE IF lo(ct) = lo(ctGama) THEN ChunkTypeGamma
    ELSE IF lo(ct) = lo(ctHist) THEN ChunkTypeHistogram
    ELSE IF lo(ct) = lo(ctIccp) THEN ChunkTypeICC
    ELSE IF lo(ct) = lo(ctItxt) THEN ChunkTypeTxtUTF8
    ELSE IF lo(ct) = lo(ctPhys) THEN ChunkTypePxSize
    ELSE IF lo(ct) = lo(ctSbit) THEN ChunkTypeSigBits
    ELSE IF lo(ct) = lo(ctSplt) THEN ChunkTypeSugPalette
    ELSE IF lo(ct) = lo(ctSrgb) THEN ChunkTypeRGB
    ELSE IF lo(ct) = lo(ctSter) THEN ChunkTypeStereo
    ELSE IF lo(ct) = lo(ctText) THEN ChunkTypeTxtISO8859
    ELSE IF lo(ct) = lo(ctTime) THEN ChunkTypeTimeChanged
    ELSE IF lo(ct) = lo(ctTrns) THEN ChunkTypeTransparency
    ELSE IF lo(ct) = lo(ctZtxt) THEN ChunkTypeTxtCompressed
    ELSE ChunkTypeUnknown

(***************************************************************************)
(* getChunkType: the chain of byte comparisons against the table.          *)
(***************************************************************************)
getChunkType(ct) ==
    IF ct = ctHdr THEN ChunkTypeHeader
    ELSE IF ct = ctPlte THEN ChunkTypePalette
    ELSE IF ct = ctDat THEN ChunkTypeData
    ELSE IF ct = ctEnd THEN ChunkTypeEnd
    ELSE IF ct = ctBkgd THEN ChunkTypeBkgdColor
    ELSE IF ct = ctChrm THEN ChunkTypeChromaticity
    ELSE IF ct = ctDSig THEN ChunkTypeDigiSignal
    ELSE IF ct = ctExif THEN ChunkTypeExif
    ELSE IF ct = ctGama THEN ChunkTypeGamma
    ELSE IF ct = ctHist THEN ChunkTypeHistogram
    ELSE IF ct = ctIccp THEN ChunkTypeICC
    ELSE IF ct = ctItxt THEN ChunkTypeTxtUTF8
    ELSE IF ct = ctPhys THEN ChunkTypePxSize
    ELSE IF ct = ctSbit THEN ChunkTypeSigBits
    ELSE IF ct = ctSplt THEN ChunkTypeSugPalette
    ELSE IF ct = ctSrgb THEN ChunkTypeRGB
    ELSE IF ct = ctSter THEN ChunkTypeStereo
    ELSE IF ct = ctText THEN ChunkTypeTxtISO8859
    ELSE IF ct = ctTime THEN ChunkTypeTimeChanged
    ELSE IF ct = ctTrns THEN ChunkTypeTransparency
    ELSE IF ct = ctZtxt THEN ChunkTypeTxtCompressed
    ELSE ChunkTypeUnknown

(***************************************************************************)
(* The input family: the signature, complete chunks and possibly the first *)
(* bytes of one more chunk; 8 other bytes and at most one chunk; or fewer  *)
(* than 8 bytes.                                                           *)
(***************************************************************************)
notPNGLast == <<137, 80, 78, 71, 13, 10, 26, 13>>    \* last byte differs
notPNGText == <<104, 101, 108, 108, 111, 32, 119, 111>>  \* "hello wo"
NotPNG == {notPNGLast, notPNGText}
Signatures == {pngHeader} \cup NotPNG

ctLower == <<105, 104, 100, 114>>    \* "ihdr", in no table
SrcCodes == {ctHdr, ctPlte, ctDat, ctEnd, ctText, ctLower}
SrcCRC == <<193, 194, 195, 196>>
DataOf(n) == [i \in 1..n |-> 16 + i]
DataLens == {0, MaxData}

\* a chunk as it is laid out in a file
RawChunk(c, n) == [code |-> c, data |-> DataOf(n), crc |-> SrcCRC]
RawChunks == {RawChunk(c, n) : c \in SrcCodes, n \in DataLens}

\* the chunks a source may end inside of
CutChunks == {RawChunk(ctDat, MaxData), RawChunk(ctEnd, 0)}

Serialize(rc) == PutUint32(Len(rc.data)) \o rc.code \o rc.data \o rc.crc

RECURSIVE SerializeAll(_)
SerializeAll(cs) ==
    IF cs = <<>> THEN <<>> ELSE Serialize(Head(cs)) \o SerializeAll(Tail(cs))

RawLists == UNION {[1..n -> RawChunks] : n \in 0..MaxChunks}

(***************************************************************************)
(* New: the parser as png.New leaves it, on source s.                      *)
(***************************************************************************)
New(s, o, po) ==
    /\ src = s
    /\ orig = o
    /\ pos = 0
    /\ data = <<>>
    /\ lastCall = "New"
    /\ isPNG = <<FALSE, "none">>
    /\ pcParse = "idle"
    /\ chunks = <<>>
    /\ startPos = 0
    /\ parseErr = "none"
    /\ pcStrip = "none"
    /\ walkData = <<>>
    /\ wi = 0
    /\ wfield = "Length"
    /\ wbuf = <<>>
    /\ woffer = FALSE
    /\ out = <<>>
    /\ rdEOF = FALSE
    /\ prevOut = po
    /\ hdrs = <<>>
    /\ stdout = <<>>
    /\ pcWalk = "idle"
    /\ walked = <<>>
    /\ walkCont = TRUE
    /\ rdClosed = FALSE
    /\ rdErr = "nil"
    /\ wErr = "nil"
    /\ firstOut = NoOut
    /\ stripDoc = <<>>

Init ==
    /\ code = <<>>
    /\ cls = NoClass
    /\ \/ \E sig \in Signatures, k \in 0..7 :
             New(Prefix(sig, k), <<>>, NoOut)
       \/ \E sig \in NotPNG, cs \in RawLists :
             /\ Len(cs) <= 1
             /\ New(sig \o SerializeAll(cs), cs, NoOut)
       \/ \E cs \in RawLists :
             New(pngHeader \o SerializeAll(cs), cs, NoOut)
       \/ \E cs \in RawLists, t \in CutChunks :
             /\ Len(cs) < MaxChunks
             /\ \E k \in 1..(Len(Serialize(t)) - 1) :
                   New(pngHeader \o SerializeAll(cs) \o Prefix(Serialize(t), k),
                       cs, NoOut)

(***************************************************************************)
(* Reads on p.br.                                                          *)
(***************************************************************************)
\* the n bytes of the source that follow position p (fewer at the end)
Bytes(p, n) == SubSeq(src, p + 1, Min(p + n, Len(src)))

\* br.Peek(n) at read position p: the next n bytes, without advancing;
\* io.EOF when fewer remain
Peek(p, n) ==
    IF Len(src) - p >= n THEN [b |-> Bytes(p, n), err |-> "nil"]
    ELSE [b |-> Bytes(p, n), err |-> "EOF"]

\* ReadFull reporting every short read as io.EOF, as a plain Read loop would
ReadFull_ShortIsEOF(p, n) ==
    LET avail == Len(src) - p IN
    IF n = 0 THEN [n |-> 0, err |-> "nil"]
    ELSE IF avail < n THEN [n |-> avail, err |-> "EOF"]
    ELSE [n |-> n, err |-> "nil"]

\* ReadFull reporting every short read, the empty one too, as ErrUnexpectedEOF
ReadFull_ShortIsError(p, n) ==
    LET avail == Len(src) - p IN
    IF n = 0 THEN [n |-> 0, err |-> "nil"]
    ELSE IF avail < n THEN [n |-> avail, err |-> "ErrUnexpectedEOF"]
    ELSE [n |-> n, err |-> "nil"]

\* io.ReadFull(p.br, buf) with len(buf) = n, at position p: the count read and
\* the error. io.EOF only when no byte was read, io.ErrUnexpectedEOF when some
\* but not all were; a buffer of size 0 is always filled.
ReadFull(p, n) ==
    LET avail == Len(src) - p IN
    IF n = 0 THEN [n |-> 0, err |-> "nil"]
    ELSE IF avail = 0 THEN [n |-> 0, err |-> "EOF"]
    ELSE IF avail < n THEN [n |-> avail, err |-> "ErrUnexpectedEOF"]
    ELSE [n |-> n, err |-> "nil"]

(***************************************************************************)
(* IsPNG                                                                   *)
(***************************************************************************)
\* IsPNG comparing only the first four bytes of the signature
IsPNGAt_FourBytes(p) ==
    LET pk == Peek(p, 8) IN
    IF pk.err # "nil" THEN <<FALSE, pk.err>>
    ELSE <<SubSeq(pk.b, 1, 4) = SubSeq(pngHeader, 1, 4), "nil">>

\* IsPNG answering false without an error when Peek fails
IsPNGAt_ShortIsFalse(p) ==
    LET pk == Peek(p, 8) IN
    IF pk.err # "nil" THEN <<FALSE, "nil">>
    ELSE <<pk.b = pngHeader, "nil">>

\* what IsPNG returns with the read position at p: <<bool, err>>
IsPNGAt(p) ==
    LET pk == Peek(p, 8) IN
    IF pk.err # "nil" THEN <<FALSE, pk.err>>
    ELSE <<pk.b = pngHeader, "nil">>

CallerIdle == pcParse = "idle" /\ pcStrip = "none" /\ pcWalk = "idle"

\* IsPNG reading the 8 bytes instead of peeking at them
IsPNG_Reads ==
    /\ pcParse = "idle" /\ pcStrip = "none"
    /\ isPNG' = IF Len(src) - pos >= 8
                THEN <<SubSeq(src, pos + 1, pos + 8) = pngHeader, "nil">>
                ELSE <<FALSE, "EOF">>
    /\ pos' = IF Len(src) - pos >= 8 THEN pos + 8 ELSE Len(src)
    /\ lastCall' = "IsPNG"
    /\ UNCHANGED <<src, orig, data, parseVars, stripVars, prevOut, classVars, hdrVars, walkVars,
                   pipeVars, stripDoc>>

IsPNG ==
    /\ CallerIdle
    /\ isPNG' = IsPNGAt(pos)
    /\ lastCall' = "IsPNG"
    /\ UNCHANGED <<src, orig, pos, data, parseVars, stripVars, prevOut,
                   classVars, hdrVars, walkVars, pipeVars, stripDoc>>

(***************************************************************************)
(* Parse and Parser.chunks                                                 *)
(***************************************************************************)
\* the signature check and the read of the 8 signature bytes, at position p:
\* the error returned ("nil": the loop is entered) and the position reached
SignatureStep(p) ==
    LET r  == IsPNGAt(p)
        hd == ReadFull(p, 8)
    IN  IF r[2] # "nil" THEN [err |-> r[2], pos |-> p]
        ELSE IF ~r[1] THEN [err |-> "input not a PNG", pos |-> p]
        ELSE IF hd.err # "nil" \/ hd.n # 8
        THEN [err |-> "unable to read header", pos |-> p + hd.n]
        ELSE [err |-> "nil", pos |-> p + 8]

Ret(e, p) == [kind |-> "return", err |-> e, pos |-> p]

\* a chunk loop that appends a chunk whose data was cut short
ChunkStep_AppendsCutData(p) ==
    LET rl == ReadFull(p, 4)
        pT == p + rl.n
        rt == ReadFull(pT, 4)
        pD == pT + rt.n
        l  == Uint32(Bytes(p, 4))
        rd == ReadFull(pD, l)
        pC == pD + rd.n
        rc == ReadFull(pC, 4)
        c  == [Length |-> Bytes(p, 4),
               CRC    |-> Bytes(pC, 4),
               Type   |-> getChunkType(Bytes(pT, 4)),
               Data   |-> Bytes(pD, l)]
    IN  IF rl.err = "EOF" THEN Ret("nil", pT)
        ELSE IF rl.err # "nil" THEN Ret("unable to read chunk length", pT)
        ELSE IF rt.err = "EOF" THEN Ret("nil", pD)
        ELSE IF rt.err # "nil" THEN Ret("unable to read chunk type", pD)
        ELSE IF rd.err # "nil" THEN [kind |-> "chunk", c |-> c, pos |-> pC]
        ELSE IF rc.err = "EOF" THEN Ret("nil", pC + rc.n)
        ELSE IF rc.err # "nil" THEN Ret("unable to read chunk CRC", pC + rc.n)
        ELSE IF rc.n # 4 THEN Ret("short read on chunk CRC", pC + rc.n)
        ELSE [kind |-> "chunk", c |-> c, pos |-> pC + 4]

\* one iteration of the chunk loop, entered at position p: either a chunk is
\* appended and the loop goes on, or chunks returns (a break returns nil)
ChunkStep(p) ==
    LET rl == ReadFull(p, 4)
        pT == p + rl.n
        rt == ReadFull(pT, 4)
        pD == pT + rt.n
        l  == Uint32(Bytes(p, 4))
        rd == ReadFull(pD, l)
        pC == pD + rd.n
        rc == ReadFull(pC, 4)
        c  == [Length |-> Bytes(p, 4),
               CRC    |-> Bytes(pC, 4),
               Type   |-> getChunkType(Bytes(pT, 4)),
               Data   |-> Bytes(pD, l)]
    IN  IF rl.err = "EOF" THEN Ret("nil", pT)
        ELSE IF rl.err # "nil" THEN Ret("unable to read chunk length", pT)
        ELSE IF rt.err = "EOF" THEN Ret("nil", pD)
        ELSE IF rt.err # "nil" THEN Ret("unable to read chunk type", pD)
        ELSE IF rd.err = "EOF" THEN Ret("nil", pC)
        ELSE IF rd.err # "nil" THEN Ret("unable to read chunk data", pC)
        ELSE IF rc.err = "EOF" THEN Ret("nil", pC + rc.n)
        ELSE IF rc.err # "nil" THEN Ret("unable to read chunk CRC", pC + rc.n)
        ELSE IF rc.n # 4 THEN Ret("short read on chunk CRC", pC + rc.n)
        ELSE [kind |-> "chunk", c |-> c, pos |-> pC + 4]

\* the call of Parse up to the chunk loop; a failed signature check returns
ParseCall ==
    /\ lastCall' = "Parse"
    /\ startPos' = pos
    /\ LET s == SignatureStep(pos) IN
       /\ pos' = s.pos
       /\ IF s.err # "nil"
          THEN /\ parseErr' = s.err
               /\ UNCHANGED <<pcParse, chunks, data>>
          ELSE /\ pcParse' = "loop"
               /\ chunks' = <<>>
               /\ UNCHANGED <<parseErr, data>>
    /\ UNCHANGED <<src, orig, isPNG, stripVars, prevOut, classVars, hdrVars,
                   walkVars, pipeVars, stripDoc>>

ParseBegin == CallerIdle /\ ParseCall

\* a Parse that stores what chunks returned whatever the error
ParseChunk_StoresOnError ==
    /\ pcParse = "loop"
    /\ LET s == ChunkStep(pos) IN
       /\ pos' = s.pos
       /\ IF s.kind = "chunk"
          THEN /\ chunks' = Append(chunks, s.c)
               /\ UNCHANGED <<pcParse, parseErr, data>>
          ELSE /\ pcParse' = "idle"
               /\ parseErr' = s.err
               /\ data' = chunks
               /\ chunks' = <<>>
    /\ UNCHANGED <<src, orig, lastCall, isPNG, startPos, stripVars, prevOut,
                   classVars, hdrVars, walkVars, pipeVars, stripDoc>>

\* one iteration of the chunk loop; when it leaves the loop chunks returns and
\* Parse stores the chunks if the error is nil
ParseChunk ==
    /\ pcParse = "loop"
    /\ LET s == ChunkStep(pos) IN
       /\ pos' = s.pos
       /\ IF s.kind = "chunk"
          THEN /\ chunks' = Append(chunks, s.c)
               /\ UNCHANGED <<pcParse, parseErr, data>>
          ELSE /\ pcParse' = "idle"
               /\ parseErr' = s.err
               /\ data' = IF s.err = "nil" THEN chunks ELSE data
               /\ chunks' = <<>>
    /\ UNCHANGED <<src, orig, lastCall, isPNG, startPos, stripVars, prevOut,
                   classVars, hdrVars, walkVars, pipeVars, stripDoc>>

\* Parser.chunks as a whole, from the chunk loop at position p on
RECURSIVE ChunksFrom(_, _)
ChunksFrom(p, acc) ==
    LET s == ChunkStep(p) IN
    IF s.kind = "chunk" THEN ChunksFrom(s.pos, Append(acc, s.c))
    ELSE [err |-> s.err, pos |-> s.pos, chunks |-> acc]

\* Parse on a parser whose read position is p and whose document is d: the
\* error returned, the position reached and the document stored
ParseAt(p, d) ==
    LET s == SignatureStep(p)
        r == ChunksFrom(s.pos, <<>>)
    IN  IF s.err # "nil" THEN [err |-> s.err, pos |-> s.pos, data |-> d]
        ELSE [err |-> r.err, pos |-> r.pos,
              data |-> IF r.err = "nil" THEN r.chunks ELSE d]

(***************************************************************************)
(* StripTags: the call creates the pipe and starts the goroutine, which    *)
(* writes the signature and then walks the stored chunks. w.Write blocks   *)
(* until Reads on the other end have taken every byte of it.               *)
(***************************************************************************)
\* the pass-through set without the end marker
passThrough_NoEnd == {ChunkTypeHeader, ChunkTypePalette, ChunkTypeData}

passThrough == {ChunkTypeHeader, ChunkTypePalette, ChunkTypeData, ChunkTypeEnd}

\* the switch with the codes of the data and end chunks exchanged
TypeBytes_Exchanged(t) ==
    IF t = ChunkTypeHeader THEN ctHdr
    ELSE IF t = ChunkTypePalette THEN ctPlte
    ELSE IF t = ChunkTypeData THEN ctEnd
    ELSE IF t = ChunkTypeEnd THEN ctDat
    ELSE <<>>

\* the switch on ch.Type in the callback (typeBytes stays nil otherwise)
TypeBytes(t) ==
    IF t = ChunkTypeHeader THEN ctHdr
    ELSE IF t = ChunkTypePalette THEN ctPlte
    ELSE IF t = ChunkTypeData THEN ctDat
    ELSE IF t = ChunkTypeEnd THEN ctEnd
    ELSE <<>>

\* the callback writing the CRC where the length belongs and the reverse
FieldBytes_Exchanged(ch, f) ==
    IF f = "Length" THEN ch.CRC
    ELSE IF f = "Type" THEN TypeBytes(ch.Type)
    ELSE IF f = "Data" THEN ch.Data
    ELSE ch.Length

\* the bytes the callback hands to w.Write for field f of chunk ch
FieldBytes(ch, f) ==
    IF f = "Length" THEN ch.Length
    ELSE IF f = "Type" THEN TypeBytes(ch.Type)
    ELSE IF f = "Data" THEN ch.Data
    ELSE ch.CRC

NextField(f) ==
    IF f = "Length" THEN "Type"
    ELSE IF f = "Type" THEN "Data"
    ELSE IF f = "Data" THEN "CRC"
    ELSE "Length"

StripTags ==
    /\ CallerIdle
    /\ pcStrip' = "start"
    /\ lastCall' = "StripTags"
    /\ stripDoc' = data
    /\ UNCHANGED <<src, orig, pos, data, isPNG, parseVars, walkData, wi,
                   wfield, wbuf, woffer, out, rdEOF, prevOut, classVars,
                   hdrVars, walkVars, pipeVars>>

\* w.Write(pngHeader)
GoWriteHeader ==
    /\ pcStrip = "start"
    /\ wbuf' = pngHeader
    /\ woffer' = TRUE
    /\ pcStrip' = "header"
    /\ UNCHANGED <<src, orig, pos, data, lastCall, isPNG, parseVars, walkData,
                   wi, wfield, out, rdEOF, prevOut, classVars, hdrVars, walkVars,
                   pipeVars, stripDoc>>

\* p.WalkChunks(...): the range expression p.data is evaluated here
GoWalk ==
    /\ pcStrip = "header"
    /\ ~woffer
    /\ walkData' = data
    /\ wi' = 1
    /\ wfield' = "Length"
    /\ pcStrip' = "walk"
    /\ UNCHANGED <<src, orig, pos, data, lastCall, isPNG, parseVars, wbuf,
                   woffer, out, rdEOF, prevOut, classVars, hdrVars, walkVars,
                   pipeVars, stripDoc>>

\* a callback that removes the chunks it does not pass from p.data
GoSkip_DropsChunk ==
    /\ pcStrip = "walk"
    /\ ~woffer
    /\ wi <= Len(walkData)
    /\ walkData[wi].Type \notin passThrough
    /\ wi' = wi + 1
    /\ data' = SelectSeq(data, LAMBDA ch : ch.Type \in passThrough)
    /\ UNCHANGED <<src, orig, pos, lastCall, isPNG, parseVars, pcStrip,
                   walkData, wfield, wbuf, woffer, out, rdEOF, prevOut,
                   classVars, hdrVars, walkVars, pipeVars, stripDoc>>

\* the callback on a chunk that is not passed through: returns true
GoSkip ==
    /\ pcStrip = "walk"
    /\ ~woffer
    /\ wi <= Len(walkData)
    /\ walkData[wi].Type \notin passThrough
    /\ wi' = wi + 1
    /\ UNCHANGED <<src, orig, pos, data, lastCall, isPNG, parseVars, pcStrip,
                   walkData, wfield, wbuf, woffer, out, rdEOF, prevOut,
                   classVars, hdrVars, walkVars, pipeVars, stripDoc>>

\* one w.Write of the callback on a chunk that is passed through
GoWrite ==
    /\ pcStrip = "walk"
    /\ ~woffer
    /\ wi <= Len(walkData)
    /\ walkData[wi].Type \in passThrough
    /\ wbuf' = FieldBytes(walkData[wi], wfield)
    /\ woffer' = TRUE
    /\ wfield' = NextField(wfield)
    /\ wi' = IF wfield = "CRC" THEN wi + 1 ELSE wi
    /\ UNCHANGED <<src, orig, pos, data, lastCall, isPNG, parseVars, pcStrip,
                   walkData, out, rdEOF, prevOut, classVars, hdrVars, walkVars,
                   pipeVars, stripDoc>>

\* the goroutine returning without closing the pipe
GoClose_Forgotten ==
    /\ \/ pcStrip = "walk" /\ ~woffer /\ wi > Len(walkData)
       \/ pcStrip = "break"
    /\ pcStrip' = "returned"
    /\ UNCHANGED <<src, orig, pos, data, lastCall, isPNG, parseVars, walkData,
                   wi, wfield, wbuf, woffer, out, rdEOF, prevOut, classVars,
                   hdrVars, walkVars, pipeVars, stripDoc>>

\* w.CloseWithError(err), after the walk ran to its end or the callback
\* returned false
GoClose ==
    /\ \/ pcStrip = "walk" /\ ~woffer /\ wi > Len(walkData)
       \/ pcStrip = "break"
    /\ pcStrip' = "closed"
    /\ UNCHANGED <<src, orig, pos, data, lastCall, isPNG, parseVars, walkData,
                   wi, wfield, wbuf, woffer, out, rdEOF, prevOut, classVars, hdrVars, walkVars,
                   pipeVars, stripDoc>>

\* a Read of the consumer with a buffer of n bytes: it takes bytes of the
\* pending Write, or returns the error the pipe was closed with (io.EOF for
\* nil); on a read end the consumer closed it returns io.ErrClosedPipe
ReadSizes == {1, 3, 64}
ErrClosedPipe == "io: read/write on closed pipe"

\* a Read that drops what does not fit its buffer
Read_DropsRest(n) ==
    /\ pcStrip # "none"
    /\ rdErr = "nil"
    /\ ~rdClosed
    /\ woffer
    /\ out' = out \o SubSeq(wbuf, 1, Min(n, Len(wbuf)))
    /\ wbuf' = <<>>
    /\ woffer' = FALSE
    /\ UNCHANGED <<src, orig, pos, data, lastCall, isPNG, parseVars, pcStrip,
                   walkData, wi, wfield, rdEOF, prevOut, classVars, hdrVars,
                   walkVars, pipeVars, stripDoc>>

Read(n) ==
    /\ pcStrip # "none"
    /\ rdErr = "nil"
    /\ IF rdClosed
       THEN /\ rdErr' = ErrClosedPipe
            /\ UNCHANGED <<wbuf, woffer, out, rdEOF>>
       ELSE \/ /\ woffer
               /\ LET nr == Min(n, Len(wbuf)) IN
                  /\ out' = out \o SubSeq(wbuf, 1, nr)
                  /\ wbuf' = SubSeq(wbuf, nr + 1, Len(wbuf))
                  /\ woffer' = (nr < Len(wbuf))
               /\ UNCHANGED <<rdEOF, rdErr>>
            \/ /\ ~woffer
               /\ pcStrip = "closed"
               /\ rdEOF' = (wErr = "nil")
               /\ rdErr' = IF wErr = "nil" THEN "EOF" ELSE wErr
               /\ UNCHANGED <<wbuf, woffer, out>>
    /\ UNCHANGED <<src, orig, pos, data, lastCall, isPNG, parseVars, pcStrip,
                   walkData, wi, wfield, prevOut, classVars, hdrVars, walkVars,
                   rdClosed, wErr, firstOut, stripDoc>>

\* the caller hands the stripped stream it read to png.New
Reopen ==
    /\ rdEOF
    /\ prevOut = NoOut
    /\ src' = out
    /\ orig' = NoOrig
    /\ pos' = 0
    /\ data' = <<>>
    /\ lastCall' = "New"
    /\ isPNG' = <<FALSE, "none">>
    /\ pcParse' = "idle"
    /\ chunks' = <<>>
    /\ startPos' = 0
    /\ parseErr' = "none"
    /\ pcStrip' = "none"
    /\ walkData' = <<>>
    /\ wi' = 0
    /\ wfield' = "Length"
    /\ wbuf' = <<>>
    /\ woffer' = FALSE
    /\ out' = <<>>
    /\ rdEOF' = FALSE
    /\ prevOut' = out
    /\ hdrs' = <<>>
    /\ stdout' = <<>>
    /\ pcWalk' = "idle"
    /\ walked' = <<>>
    /\ walkCont' = TRUE
    /\ rdClosed' = FALSE
    /\ rdErr' = "nil"
    /\ wErr' = "nil"
    /\ firstOut' = NoOut
    /\ stripDoc' = <<>>
    /\ UNCHANGED classVars

Next ==
    \/ IsPNG
    \/ ParseBegin
    \/ ParseChunk
    \/ StripTags
    \/ GoWriteHeader
    \/ GoWalk
    \/ GoSkip
    \/ GoWrite
    \/ GoClose
    \/ \E n \in ReadSizes : Read(n)
    \/ Reopen

Spec == Init /\ [][Next]_vars

(***************************************************************************)
(* getChunkType on its own: a code is drawn and classified.                *)
(***************************************************************************)
ChunkTable == <<ctHdr, ctPlte, ctDat, ctEnd, ctBkgd, ctChrm, ctDSig, ctExif,
                ctGama, ctHist, ctIccp, ctItxt, ctPhys, ctSbit, ctSplt,
                ctSrgb, ctSter, ctText, ctTime, ctTrns, ctZtxt>>

TableCodes == {ChunkTable[k] : k \in 1..Len(ChunkTable)}
LowerCase(c) == [i \in 1..4 |-> ToLower(c[i])]
UpperCase(c) == [i \in 1..4 |-> ToUpper(c[i])]
LastChanged(c) == [c EXCEPT ![4] = IF c[4] = 122 THEN 97 ELSE c[4] + 1]

\* the table codes, their case variants and their neighbours in the last byte
CodeInputs ==
    TableCodes \cup {LowerCase(c) : c \in TableCodes}
        \cup {UpperCase(c) : c \in TableCodes}
        \cup {LastChanged(c) : c \in TableCodes}

InitClassify ==
    /\ New(<<>>, <<>>, NoOut)
    /\ code \in CodeInputs
    /\ cls = NoClass

Classify ==
    /\ cls = NoClass
    /\ cls' = getChunkType(code)
    /\ UNCHANGED <<src, orig, pos, data, lastCall, isPNG, parseVars, stripVars,
                   prevOut, code, hdrVars, walkVars, pipeVars, stripDoc>>

NextClassify == Classify

SpecClassify == InitClassify /\ [][NextClassify]_vars

(***************************************************************************)
(* parseHeader and PrintHeader, on files of one chunk whose data is a      *)
(* header payload, a payload cut short, or a payload with a byte too many. *)
(***************************************************************************)
HeaderLen == 13

\* var hdr headerChunk
ZeroHeader ==
    [Width |-> 0, Height |-> 0, BitDepth |-> 0, ColorType |-> 0,
     CompressionMethod |-> 0, FilterMethod |-> 0, InterlaceMethod |-> 0]

\* the fields of a payload, by offset
HeaderFields(d) ==
    [Width |-> Uint32(SubSeq(d, 1, 4)), Height |-> Uint32(SubSeq(d, 5, 8)),
     BitDepth |-> d[9], ColorType |-> d[10], CompressionMethod |-> d[11],
     FilterMethod |-> d[12], InterlaceMethod |-> d[13]]

\* parseHeader rejecting only payloads that are too short
parseHeader_AtLeast13(d) ==
    IF Len(d) < HeaderLen
    THEN [hdr |-> ZeroHeader,
          err |-> "got bytes for header chunk, expected 13"]
    ELSE [hdr |-> HeaderFields(d), err |-> "nil"]

\* parseHeader taking the filter method from the bit depth byte
parseHeader_FilterFromDepth(d) ==
    IF Len(d) # HeaderLen
    THEN [hdr |-> ZeroHeader,
          err |-> "got bytes for header chunk, expected 13"]
    ELSE [hdr |-> [HeaderFields(d) EXCEPT !.FilterMethod = d[9]],
          err |-> "nil"]

parseHeader(d) ==
    IF Len(d) # HeaderLen
    THEN [hdr |-> ZeroHeader,
          err |-> "got bytes for header chunk, expected 13"]
    ELSE [hdr |-> HeaderFields(d), err |-> "nil"]

\* the seven numbers PrintHeader prints for a header
Printed(h) ==
    <<h.Width, h.Height, h.BitDepth, h.ColorType, h.CompressionMethod,
      h.BitDepth, h.InterlaceMethod>>

IsHeaderChunk(ch) == ch.Type = ChunkTypeHeader

PrintHeader ==
    /\ CallerIdle
    /\ LET hs == SelectSeq(data, IsHeaderChunk) IN
       /\ hdrs' = [i \in 1..Len(hs) |-> parseHeader(hs[i].Data)]
       /\ stdout' = [i \in 1..Len(hs) |-> Printed(parseHeader(hs[i].Data).hdr)]
    /\ lastCall' = "PrintHeader"
    /\ UNCHANGED <<src, orig, pos, data, isPNG, parseVars, stripVars, prevOut,
                   classVars, walkVars, pipeVars, stripDoc>>

\* the payloads: big-endian sizes below 2^31, and the other five bytes
HeaderSizes ==
    {<<0, 0, 0, 16>>, <<0, 0, 0, 32>>, <<0, 1, 2, 3>>, <<127, 255, 255, 255>>}
HeaderTails ==
    {<<bd, ct, 0, fm, il>> : bd \in {8, 16}, ct \in {2, 6}, fm \in {0, 1},
                             il \in {0, 1}}
HeaderPayloads == {w \o h \o t : w \in HeaderSizes, h \in HeaderSizes,
                                 t \in HeaderTails}
HeaderData ==
    HeaderPayloads
      \cup {Prefix(d, k) : d \in HeaderPayloads, k \in {0, 4, HeaderLen - 1}}
      \cup {d \o <<0>> : d \in HeaderPayloads}
HeaderChunks ==
    {[code |-> c, data |-> d, crc |-> SrcCRC] :
        c \in {ctHdr, ctDat}, d \in HeaderData}

InitHeader ==
    /\ code = <<>>
    /\ cls = NoClass
    /\ \E rc \in HeaderChunks : New(pngHeader \o Serialize(rc), <<rc>>, NoOut)

NextHeader ==
    \/ ParseBegin
    \/ ParseChunk
    \/ PrintHeader

SpecHeader == InitHeader /\ [][NextHeader]_vars

(***************************************************************************)
(* A session on one parser: Parse, WalkChunks with a callback of the       *)
(* caller, StripTags with a consumer that reads the pipe and may close its *)
(* read end, and StripTags once more.                                      *)
(***************************************************************************)
\* the consumer closes the read end of the pipe
CloseRead ==
    /\ pcStrip # "none"
    /\ rdErr = "nil"
    /\ ~rdClosed
    /\ rdClosed' = TRUE
    /\ UNCHANGED <<src, orig, pos, data, lastCall, isPNG, parseVars, stripVars,
                   prevOut, classVars, hdrVars, walkVars, rdErr, wErr,
                   firstOut, stripDoc>>

\* the field the latest w.Write of the callback was for
PrevField(f) ==
    IF f = "Type" THEN "length"
    ELSE IF f = "Data" THEN "type"
    ELSE IF f = "CRC" THEN "data"
    ELSE "CRC"

WriteError(f) ==
    IF f = "length" THEN "unable to write chunk length"
    ELSE IF f = "type" THEN "unable to write chunk type"
    ELSE IF f = "data" THEN "unable to write chunk data"
    ELSE "unable to write chunk CRC"

\* a callback that records the error and returns true
GoWriteFails_Continues ==
    /\ woffer
    /\ rdClosed
    /\ wbuf' = <<>>
    /\ woffer' = FALSE
    /\ IF pcStrip = "header"
       THEN /\ wErr' = "unable to write PNG header"
            /\ pcStrip' = "closed"
       ELSE /\ wErr' = WriteError(PrevField(wfield))
            /\ pcStrip' = "walk"
    /\ UNCHANGED <<src, orig, pos, data, lastCall, isPNG, parseVars, walkData,
                   wi, wfield, out, rdEOF, prevOut, classVars, hdrVars,
                   walkVars, rdClosed, rdErr, firstOut, stripDoc>>

\* w.Write returns io.ErrClosedPipe: for the signature the goroutine closes
\* the pipe with an error and returns; in the callback err is set and the
\* callback returns false, which ends the walk
GoWriteFails ==
    /\ woffer
    /\ rdClosed
    /\ wbuf' = <<>>
    /\ woffer' = FALSE
    /\ IF pcStrip = "header"
       THEN /\ wErr' = "unable to write PNG header"
            /\ pcStrip' = "closed"
       ELSE /\ wErr' = WriteError(PrevField(wfield))
            /\ pcStrip' = "break"
    /\ UNCHANGED <<src, orig, pos, data, lastCall, isPNG, parseVars, walkData,
                   wi, wfield, out, rdEOF, prevOut, classVars, hdrVars,
                   walkVars, rdClosed, rdErr, firstOut, stripDoc>>

\* the stream of the pipe has ended for the consumer
StreamOver == pcStrip = "closed" /\ rdErr # "nil"

\* StripTags called again on the parser: a new pipe and a new goroutine
StripAgain ==
    /\ pcParse = "idle"
    /\ pcWalk = "idle"
    /\ StreamOver
    /\ firstOut = NoOut
    /\ firstOut' = IF rdEOF THEN out ELSE NoOut
    /\ stripDoc' = data
    /\ pcStrip' = "start"
    /\ walkData' = <<>>
    /\ wi' = 0
    /\ wfield' = "Length"
    /\ wbuf' = <<>>
    /\ woffer' = FALSE
    /\ out' = <<>>
    /\ rdEOF' = FALSE
    /\ rdClosed' = FALSE
    /\ rdErr' = "nil"
    /\ wErr' = "nil"
    /\ lastCall' = "StripTags"
    /\ UNCHANGED <<src, orig, pos, data, isPNG, parseVars, prevOut, classVars,
                   hdrVars, walkVars>>

\* p.WalkChunks(fn) called by the caller
WalkChunks ==
    /\ pcParse = "idle"
    /\ pcWalk = "idle"
    /\ pcStrip = "none" \/ StreamOver
    /\ walked' = <<>>
    /\ walkCont' = TRUE
    /\ pcWalk' = IF data = <<>> THEN "idle" ELSE "walk"
    /\ lastCall' = "WalkChunks"
    /\ UNCHANGED <<src, orig, pos, data, isPNG, parseVars, stripVars, prevOut,
                   classVars, hdrVars, pipeVars, stripDoc>>

\* a walk that goes on whatever the callback returns
WalkCallback_IgnoresReturn(b) ==
    /\ pcWalk = "walk"
    /\ walked' = Append(walked, data[Len(walked) + 1])
    /\ walkCont' = b
    /\ pcWalk' = IF Len(walked) + 1 = Len(data) THEN "idle" ELSE "walk"
    /\ UNCHANGED <<src, orig, pos, data, lastCall, isPNG, parseVars, stripVars,
                   prevOut, classVars, hdrVars, pipeVars, stripDoc>>

\* fn(ch) on the next chunk returns b; false or the end of p.data ends the walk
WalkCallback(b) ==
    /\ pcWalk = "walk"
    /\ walked' = Append(walked, data[Len(walked) + 1])
    /\ walkCont' = b
    /\ pcWalk' = IF ~b \/ Len(walked) + 1 = Len(data) THEN "idle" ELSE "walk"
    /\ UNCHANGED <<src, orig, pos, data, lastCall, isPNG, parseVars, stripVars,
                   prevOut, classVars, hdrVars, pipeVars, stripDoc>>

\* the files of a session: up to MaxChunks chunks, critical or not
SessionChunks ==
    {RawChunk(ctHdr, MaxData), RawChunk(ctText, MaxData), RawChunk(ctEnd, 0)}
SessionLists == UNION {[1..n -> SessionChunks] : n \in 0..MaxChunks}

InitSession ==
    /\ code = <<>>
    /\ cls = NoClass
    /\ \E cs \in SessionLists : New(pngHeader \o SerializeAll(cs), cs, NoOut)

NextSession ==
    \/ ParseBegin
    \/ ParseChunk
    \/ WalkChunks
    \/ \E b \in BOOLEAN : WalkCallback(b)
    \/ StripTags
    \/ GoWriteHeader
    \/ GoWalk
    \/ GoSkip
    \/ GoWrite
    \/ GoWriteFails
    \/ GoClose
    \/ \E n \in ReadSizes : Read(n)
    \/ CloseRead
    \/ StripAgain

SpecSession == InitSession /\ [][NextSession]_vars

\* the steps of the goroutine while the read end stays open
GoStep ==
    \/ GoWriteHeader
    \/ GoWalk
    \/ GoSkip
    \/ GoWrite
    \/ GoClose

\* a session whose consumer keeps reading and never closes the read end
NextReading ==
    \/ ParseBegin
    \/ ParseChunk
    \/ StripTags
    \/ GoStep
    \/ \E n \in ReadSizes : Read(n)

SpecReading ==
    /\ InitSession
    /\ [][NextReading]_vars
    /\ WF_vars(GoStep)
    /\ WF_vars(\E n \in ReadSizes : Read(n))

(***************************************************************************)
(* A caller that calls Parse after StripTags has returned, while the       *)
(* goroutine of StripTags runs. The goroutine reads p.data when it reaches *)
(* WalkChunks, Parse assigns it, and nothing orders the two.               *)
(***************************************************************************)
\* Parse called after StripTags returned
ParseBeginAfterStrip ==
    /\ pcParse = "idle"
    /\ pcStrip \notin {"none", "panic"}
    /\ ParseCall

\* the goroutine evaluates the range expression p.data while Parse assigns
\* p.data: the slice header read is the pointer of one value with the length
\* of the other. With the new array and the old length the walk covers the
\* first chunks only; with the old array and the new length the first
\* element beyond the old array is read and the program panics.
GoWalkTorn ==
    /\ pcStrip = "header"
    /\ ~woffer
    /\ pcParse = "loop"
    /\ LET s == ChunkStep(pos) IN
       /\ s.kind = "return"
       /\ s.err = "nil"
       /\ Len(chunks) > Len(data)
       /\ pos' = s.pos
       /\ pcParse' = "idle"
       /\ parseErr' = "nil"
       /\ data' = chunks
       /\ chunks' = <<>>
       /\ \/ /\ walkData' = Prefix(chunks, Len(data))
             /\ wi' = 1
             /\ wfield' = "Length"
             /\ pcStrip' = "walk"
          \/ /\ pcStrip' = "panic"
             /\ UNCHANGED <<walkData, wi, wfield>>
    /\ UNCHANGED <<src, orig, lastCall, isPNG, startPos, wbuf, woffer, out,
                   rdEOF, prevOut, classVars, hdrVars, walkVars, pipeVars,
                   stripDoc>>

NextRace ==
    \/ ParseBegin
    \/ ParseBeginAfterStrip
    \/ ParseChunk
    \/ StripTags
    \/ GoWriteHeader
    \/ GoWalk
    \/ GoWalkTorn
    \/ GoSkip
    \/ GoWrite
    \/ GoClose
    \/ \E n \in ReadSizes : Read(n)

SpecRace == InitSession /\ [][NextRace]_vars

(***************************************************************************)
(* What the properties below speak of.                                     *)
(***************************************************************************)
Critical == {ChunkTypeHeader, ChunkTypePalette, ChunkTypeData, ChunkTypeEnd}
CriticalCodes == {ctHdr, ctPlte, ctDat, ctEnd}

\* the record Parse is to build for a chunk laid out in the file
RecordOf(rc) ==
    [Length |-> PutUint32(Len(rc.data)), CRC |-> rc.crc,
     Type |-> getChunkType(rc.code), Data |-> rc.data]
RecordsOf(cs) == [i \in 1..Len(cs) |-> RecordOf(cs[i])]

\* the source is the signature, the complete chunks of orig and CutLen more bytes
Framed ==
    /\ orig # NoOrig
    /\ Len(src) >= 8
    /\ SubSeq(src, 1, 8) = pngHeader
CutStart == 8 + Len(SerializeAll(orig))
CutLen == Len(src) - CutStart
CutBytes == SubSeq(src, CutStart + 1, Len(src))
CutDeclared == Uint32(SubSeq(CutBytes, 1, 4))

\* a Parse call that started at the first byte of the source has returned
ParsedFromStart == pcParse = "idle" /\ parseErr # "none" /\ startPos = 0

\* the stripped stream of a document, chunk by chunk
RECURSIVE StrippedChunks(_)
StrippedChunks(doc) ==
    IF doc = <<>> THEN <<>>
    ELSE LET ch == Head(doc) IN
         (IF ch.Type \in Critical
          THEN ch.Length \o ChunkTable[ch.Type] \o ch.Data \o ch.CRC
          ELSE <<>>) \o StrippedChunks(Tail(doc))

\* every chunk of a document written the way the StripTags callback writes one
RECURSIVE ReEmit(_)
ReEmit(doc) ==
    IF doc = <<>> THEN <<>>
    ELSE LET ch == Head(doc) IN
         FieldBytes(ch, "Length") \o FieldBytes(ch, "Type")
             \o FieldBytes(ch, "Data") \o FieldBytes(ch, "CRC")
             \o ReEmit(Tail(doc))

(***************************************************************************)
(* C1. Once the consumer has read the stream of StripTags to its end, the  *)
(* bytes it holds are the 8 signature bytes followed, for each chunk of    *)
(* the document classified Header, Palette, ImageData or End and in        *)
(* document order, by its length, type, data and CRC bytes; every other    *)
(* chunk contributes nothing. For a document parsed from a generated       *)
(* stream these are the very bytes of the critical chunks of the stream.   *)
(***************************************************************************)
CriticalCode(rc) == rc.code \in CriticalCodes

C1_StripOutput ==
    rdEOF =>
        /\ out = pngHeader \o StrippedChunks(data)
        /\ (ParsedFromStart /\ Framed /\ parseErr = "nil") =>
              out = pngHeader \o SerializeAll(SelectSeq(orig, CriticalCode))

C1_Witness ==
    /\ rdEOF
    /\ \E i, j \in 1..Len(data) :
          /\ data[i].Type = ChunkTypeTxtISO8859
          /\ data[j].Type \in Critical
    /\ Len(out) > 8

(***************************************************************************)
(* C2. An IsPNG call leaves the read position where it was, an IsPNG call  *)
(* that follows an IsPNG call returns what that one returned, and the      *)
(* first Parse of a parser, after any number of IsPNG calls, returns and   *)
(* stores what Parse does on the untouched source.                         *)
(***************************************************************************)
C2_IsPNGDoesNotConsume ==
    [][/\ lastCall' = "IsPNG" =>
            /\ pos' = pos
            /\ lastCall = "IsPNG" => isPNG' = isPNG
       /\ (parseErr = "none" /\ parseErr' # "none") =>
            LET fresh == ParseAt(0, <<>>) IN
            /\ parseErr' = fresh.err
            /\ data' = fresh.data
            /\ pos' = fresh.pos]_vars

C2_Witness ==
    /\ lastCall = "Parse"
    /\ pcParse = "idle"
    /\ isPNG = <<TRUE, "nil">>
    /\ parseErr = "nil"
    /\ Len(data) >= 1

(***************************************************************************)
(* C3. On a source of at least 8 bytes whose first 8 bytes are not the     *)
(* signature, Parse fails with "input not a PNG", consumes nothing and     *)
(* produces no chunks.                                                     *)
(***************************************************************************)
C3_NotAPNG ==
    (/\ pcParse = "idle"
     /\ parseErr # "none"
     /\ Len(src) >= 8
     /\ SubSeq(src, 1, 8) # pngHeader)
    => /\ parseErr = "input not a PNG"
       /\ pos = 0
       /\ data = <<>>
       /\ chunks = <<>>

C3_Witness ==
    /\ parseErr = "input not a PNG"
    /\ Len(src) > 8
    /\ pos = 0

(***************************************************************************)
(* C4. When the source ends at a chunk boundary, Parse succeeds and the    *)
(* document is exactly the complete chunks of the stream in stream order   *)
(* (none when the stream ends after the signature), all bytes consumed.    *)
(***************************************************************************)
C4_CompleteChunks ==
    (ParsedFromStart /\ Framed /\ CutLen = 0)
    => /\ parseErr = "nil"
       /\ data = RecordsOf(orig)
       /\ pos = Len(src)

C4_Witness ==
    /\ ParsedFromStart /\ Framed /\ CutLen = 0
    /\ Len(data) = 2
    /\ data[1] # data[2]

(***************************************************************************)
(* C5. If a chunk's length field was read and fewer than 4 bytes remain    *)
(* for the type code (none included), Parse fails with an error.           *)
(***************************************************************************)
C5_TruncatedType ==
    (ParsedFromStart /\ Framed /\ CutLen >= 4 /\ CutLen < 8)
    => parseErr = "unable to read chunk type"

(***************************************************************************)
(* C6. If the last chunk's declared length exceeds the bytes that remain,  *)
(* then: with no data byte available Parse returns nil and the document is *)
(* the chunks completed before; with some data bytes available Parse fails *)
(* with "unable to read chunk data" and the stored document stays empty.   *)
(***************************************************************************)
DataCutShort == Framed /\ CutLen >= 8 /\ CutDeclared > CutLen - 8

CRCCutShort ==
    /\ Framed
    /\ CutLen >= 8
    /\ CutLen - 8 - CutDeclared \in 0..3

ValidParsed == ParsedFromStart /\ Framed /\ CutLen = 0

C9_StripIdempotent ==
    (prevOut # NoOut /\ parseErr # "none" /\ rdEOF) => out = prevOut

C9_Witness ==
    /\ prevOut # NoOut
    /\ parseErr = "nil"
    /\ rdEOF
    /\ Len(data) = 2
    /\ out = prevOut

(***************************************************************************)
(* C10. getChunkType gives every code one classification: a table code     *)
(* gets the classification of its table entry, and no other code does; a   *)
(* code that is byte-equal to no table entry is Unknown.                   *)
(***************************************************************************)
C10_Classification ==
    cls # NoClass =>
        /\ cls \in 0..Len(ChunkTable)
        /\ \A k \in 1..Len(ChunkTable) : (cls = k) <=> (code = ChunkTable[k])
        /\ (code \notin TableCodes) => cls = ChunkTypeUnknown

C10_Witness ==
    /\ cls = ChunkTypeUnknown
    /\ code = LowerCase(ctHdr)


(***************************************************************************)
(* C11: parseHeader fails exactly when the data of the header chunk is not *)
(* 13 bytes long, and then returns an error and a header whose fields are  *)
(* all zero; Parse has succeeded all the same and the document keeps the   *)
(* header chunk with its data, whatever its length, after PrintHeader      *)
(* decoded it.                                                             *)
(***************************************************************************)
IsHeaderCode(rc) == rc.code = ctHdr

C11_HeaderDecodeFailure ==
    (lastCall = "PrintHeader" /\ ParsedFromStart) =>
        LET hs == SelectSeq(orig, IsHeaderCode) IN
        /\ parseErr = "nil"
        /\ data = RecordsOf(orig)
        /\ Len(hdrs) = Len(hs)
        /\ \A i \in 1..Len(hs) :
              /\ (hdrs[i].err # "nil") <=> (Len(hs[i].data) # 13)
              /\ (hdrs[i].err # "nil") => (hdrs[i].hdr = ZeroHeader)

\* a header chunk of 12 bytes was kept by Parse and failed to decode
C11_Witness ==
    /\ lastCall = "PrintHeader"
    /\ ParsedFromStart
    /\ Len(data) = 1
    /\ data[1].Type = ChunkTypeHeader
    /\ Len(data[1].Data) = 12
    /\ Len(hdrs) = 1
    /\ hdrs[1].err # "nil"

(***************************************************************************)
(* C12: for a header chunk of 13 data bytes parseHeader returns the width  *)
(* and height as the big-endian values of bytes 0..3 and 4..7 and the bit  *)
(* depth, color type, compression, filter and interlace methods as bytes   *)
(* 8..12; 00000010 00000020 08 06 00 00 00 decodes to 16 by 32, depth 8,   *)
(* color type 6.                                                           *)
(***************************************************************************)
C12_Example == <<0, 0, 0, 16, 0, 0, 0, 32, 8, 6, 0, 0, 0>>

C12_HeaderFields ==
    (lastCall = "PrintHeader" /\ ParsedFromStart) =>
        LET hs == SelectSeq(orig, IsHeaderCode) IN
        \A i \in 1..Len(hs) :
            LET d == hs[i].data
                h == hdrs[i].hdr
            IN  Len(d) = 13 =>
                /\ i <= Len(hdrs)
                /\ hdrs[i].err = "nil"
                /\ h.Width = d[1] * 16777216 + d[2] * 65536 + d[3] * 256 + d[4]
                /\ h.Height = d[5] * 16777216 + d[6] * 65536 + d[7] * 256 + d[8]
                /\ h.BitDepth = d[9]
                /\ h.ColorType = d[10]
                /\ h.CompressionMethod = d[11]
                /\ h.FilterMethod = d[12]
                /\ h.InterlaceMethod = d[13]
                /\ d = C12_Example =>
                      /\ h.Width = 16
                      /\ h.Height = 32
                      /\ h.BitDepth = 8
                      /\ h.ColorType = 6

\* the example payload was decoded
C12_Witness ==
    /\ lastCall = "PrintHeader"
    /\ ParsedFromStart
    /\ Len(hdrs) = 1
    /\ orig[1].data = C12_Example
    /\ hdrs[1].hdr.Width = 16
    /\ hdrs[1].hdr.Height = 32



(***************************************************************************)
(* C13: once a w.Write of the goroutine has failed because the consumer    *)
(* closed the read end, the goroutine is out of the walk and offers no     *)
(* further write: no later field and no later chunk is written, nothing    *)
(* more reaches the consumer, the error is kept for closing the pipe, and  *)
(* the consumer never observes a clean end-of-stream.                      *)
(***************************************************************************)
C13_WriteFailureStops ==
    [][(wErr' # "nil") =>
          /\ pcStrip' \in {"break", "closed"}
          /\ ~woffer'
          /\ ~rdEOF'
          /\ rdErr' # "EOF"
          /\ (wErr # "nil") =>
                /\ wErr' = wErr
                /\ wfield' = wfield
                /\ wi' = wi
                /\ out' = out]_vars

\* the write of a data field failed after part of the stream was read; the
\* pipe is closed with that error and the consumer's Read failed
C13_Witness ==
    /\ pcStrip = "closed"
    /\ wErr = "unable to write chunk data"
    /\ wi <= Len(walkData)
    /\ Len(out) > 8
    /\ rdErr = ErrClosedPipe

(***************************************************************************)
(* C14: whatever the interleaving of the goroutine and the consumer and    *)
(* whatever the read sizes, the bytes the consumer has received, and those *)
(* together with the bytes of the pending write, are a prefix of the       *)
(* stripped stream of the document.                                        *)
(***************************************************************************)
IsPrefixOf(a, b) == Len(a) <= Len(b) /\ a = SubSeq(b, 1, Len(a))

C14_PipeIsFIFO ==
    (pcStrip # "none") =>
        /\ IsPrefixOf(out, pngHeader \o StrippedChunks(data))
        /\ woffer => IsPrefixOf(out \o wbuf, pngHeader \o StrippedChunks(data))

\* a Read took three of the four bytes of a length field
C14_Witness ==
    /\ woffer
    /\ Len(out) = 11
    /\ Len(wbuf) = 1
    /\ wfield = "Type"

(***************************************************************************)
(* C15: with a consumer that keeps reading and a goroutine that keeps      *)
(* running, every StripTags stream ends: the consumer observes             *)
(* end-of-stream, and it does so only when the pipe is closed and every    *)
(* byte of the stripped stream has been received.                          *)
(***************************************************************************)
C15_StreamEnds ==
    /\ [](rdErr = "EOF" =>
             /\ pcStrip = "closed"
             /\ ~woffer
             /\ out = pngHeader \o StrippedChunks(data))
    /\ (pcStrip = "start") ~> (rdErr = "EOF")

\* end-of-stream after the chunks of a document
C15_Witness ==
    /\ rdErr = "EOF"
    /\ Len(data) = MaxChunks
    /\ Len(out) > 8

(***************************************************************************)
(* C16: WalkChunks hands the callback the chunks of the document in order  *)
(* from the first, one more at each call and only while no call has        *)
(* returned false; a false return ends the walk, and a walk whose calls    *)
(* all returned true has visited every chunk exactly once.                 *)
(***************************************************************************)
C16_WalkOrder ==
    [][/\ (walked' # walked /\ walked' # <<>>) =>
             /\ pcWalk = "walk"
             /\ walkCont
             /\ Len(walked) < Len(data)
             /\ walked' = Append(walked, data[Len(walked) + 1])
       /\ ~walkCont' => pcWalk' = "idle"
       /\ (pcWalk' = "idle" /\ walkCont' /\ lastCall' = "WalkChunks") =>
             walked' = data']_vars

\* the callback returned false on the first of two chunks
C16_Witness ==
    /\ lastCall = "WalkChunks"
    /\ pcWalk = "idle"
    /\ ~walkCont
    /\ Len(walked) = 1
    /\ Len(data) >= 2

(***************************************************************************)
(* C17: the stored document changes only in the step in which Parse        *)
(* returns without error, never in a step of WalkChunks or StripTags; and  *)
(* a second StripTags stream of the parser delivers the bytes of the first.*)
(***************************************************************************)
C17_DocumentUnchanged ==
    [][/\ (data' # data) =>
             (pcParse = "loop" /\ pcParse' = "idle" /\ parseErr' = "nil")
       /\ (rdEOF' /\ firstOut' # NoOut) => out' = firstOut']_vars

\* a document with a chunk that is not passed was walked and stripped twice
C17_Witness ==
    /\ rdEOF
    /\ firstOut # NoOut
    /\ out = firstOut
    /\ walked = data
    /\ \E i \in 1..Len(data) : data[i].Type \notin passThrough
    /\ \E i \in 1..Len(data) : data[i].Type \in passThrough



(***************************************************************************)
(* C18: on a source of fewer than 8 bytes, the empty one too, IsPNG        *)
(* returns the error of the failed Peek (with false), and Parse returns    *)
(* that same error, not "input not a PNG", and stores nothing.             *)
(***************************************************************************)
C18_ShortSource ==
    (Len(src) < 8) =>
        /\ (isPNG[2] # "none") => (isPNG = <<FALSE, "EOF">>)
        /\ (pcParse = "idle" /\ parseErr # "none") =>
              /\ parseErr = "EOF"
              /\ parseErr # "input not a PNG"
              /\ data = <<>>
              /\ pos = 0

\* IsPNG and Parse were both called on the first 7 bytes of the signature
C18_Witness ==
    /\ src = SubSeq(pngHeader, 1, 7)
    /\ isPNG = <<FALSE, "EOF">>
    /\ parseErr = "EOF"
    /\ lastCall = "Parse"



(***************************************************************************)
(* C19: every chunk in the slice Parse is building and in the stored       *)
(* document has 4 length bytes, as many data bytes as its length field     *)
(* declares (big-endian) and 4 CRC bytes, and is one of the complete       *)
(* chunks of the file, in order: a chunk whose type, data or CRC is cut    *)
(* short is never appended.                                                *)
(***************************************************************************)
WellFormed(ch) ==
    /\ Len(ch.Length) = 4
    /\ Len(ch.Data) = Uint32(ch.Length)
    /\ Len(ch.CRC) = 4

C19_AppendedChunksComplete ==
    /\ \A i \in 1..Len(chunks) : WellFormed(chunks[i])
    /\ \A i \in 1..Len(data) : WellFormed(data[i])
    /\ Framed =>
          /\ IsPrefixOf(chunks, RecordsOf(orig))
          /\ IsPrefixOf(data, RecordsOf(orig))

\* the loop appended every complete chunk and stands before a chunk that is
\* cut short inside its data
C19_Witness ==
    /\ pcParse = "loop"
    /\ Framed
    /\ Len(orig) >= 1
    /\ chunks = RecordsOf(orig)
    /\ CutLen > 8
    /\ CutLen < 12 + CutDeclared



(***************************************************************************)
(* C20: whenever the StripTags callback writes the type field of a chunk,  *)
(* the 4 bytes it writes are the 4 type bytes the file holds for that      *)
(* chunk.                                                                  *)
(***************************************************************************)
\* the type bytes of the k-th chunk of the file, the first one starting at p
RECURSIVE SrcCode(_, _)
SrcCode(k, p) ==
    IF k = 1 THEN Bytes(p + 4, 4)
    ELSE SrcCode(k - 1, p + 12 + Uint32(Bytes(p, 4)))

C20_TypeBytesPreserved ==
    [][(wfield = "Type" /\ wfield' = "Data") =>
          /\ woffer'
          /\ wbuf' = SrcCode(wi, 8)]_vars

\* the type field of the second chunk of a file is being written
C20_Witness ==
    /\ woffer
    /\ wfield = "Data"
    /\ wi = 2
    /\ Len(wbuf) = 4
    /\ wbuf = SrcCode(2, 8)
    /\ SrcCode(1, 8) \notin CriticalCodes



(***************************************************************************)
(* C21: a step in which Parse returns an error, from the signature check   *)
(* or from the chunk loop, leaves the stored document as it was; the       *)
(* chunks the loop had completed are not stored, and after a failed first  *)
(* Parse the document is empty.                                            *)
(***************************************************************************)
\* this step is a return of Parse
ParseReturns ==
    \/ pcParse = "loop" /\ pcParse' = "idle"
    \/ pcParse = "idle" /\ pcParse' = "idle" /\ lastCall' = "Parse"
                        /\ startPos' = pos

C21_FailedParseKeepsDocument ==
    [][(ParseReturns /\ parseErr' # "nil") =>
          /\ data' = data
          /\ startPos' = 0 => data' = <<>>]_vars

\* Parse failed inside the data of a chunk after it had completed others,
\* and nothing is stored
C21_Witness ==
    /\ ParsedFromStart
    /\ Framed
    /\ Len(orig) >= 1
    /\ parseErr = "unable to read chunk data"
    /\ data = <<>>



(***************************************************************************)
(* C22: the stream of StripTags is the signature and the pass-through      *)
(* chunks of the document that was stored when StripTags was called,       *)
(* whatever a Parse called after StripTags returned stores while the       *)
(* goroutine runs.                                                         *)
(***************************************************************************)
C22_StreamOfDocumentAtCall ==
    (rdErr = "EOF") => (out = pngHeader \o StrippedChunks(stripDoc))


==============================================================================
